---- MODULE Spec2Model ----
(***************************************************************************)
(* A model of the two scripts of genai_cookbook:                           *)
(*   - 3_RAG/rag_app/gradio_rag_app.py: the module globals (embeddings,    *)
(*     vectorstore, llm, retriever) and the handlers initialize_components,*)
(*     index_documents, query_rag and clear_index;                         *)
(*   - 4_Agents/mcp_server/mcp_server_example.py: the file tools           *)
(*     handle_read_file and handle_list_files with their path check.       *)
(* Text is a sequence of characters, each character a one-character string,*)
(* so that len(), slicing, startswith() and strip() are computed as Python *)
(* computes them.                                                          *)
(***************************************************************************)
EXTENDS Naturals, Sequences, FiniteSets, TLC

VARIABLES
    embeddings,   \* global embeddings: FALSE is None, TRUE an OpenAIEmbeddings
    llm,          \* global llm: FALSE is None, TRUE a ChatOpenAI
    vectorstore,  \* global vectorstore: 0 is None, else the id of its QdrantClient
    retriever,    \* global retriever: None, or [store, search_type]
    clients,      \* the live QdrantClient(":memory:") instances: id -> collection
    last,         \* the RAG handler call being returned to the UI: arguments and result
    cleared,      \* history: clear_index succeeded and index_documents was not called
                  \* since (is), and that clear dropped indexed chunks (dropped)
    batch,        \* history: the chunks of the last successful index_documents since then
    mmr_ok,       \* environment: the vector store class supports MMR search
    mcp,          \* the last tool call of the MCP server: arguments and response
    pair,         \* two query_rag runs on the same question and retrieval
    running       \* the index_documents and clear_index calls that worker threads
                  \* are in the middle of: where each one is, and its locals

vars == <<embeddings, llm, vectorstore, retriever, clients, last, cleared, batch,
          mmr_ok, mcp, pair, running>>

ragVars == <<embeddings, llm, vectorstore, retriever, clients, last, cleared, batch, mmr_ok>>

None == [none |-> TRUE]

-----------------------------------------------------------------------------
(* Python str operations on character sequences.                           *)

Whitespace == {" ", "\n", "\t"}

RECURSIVE LStrip(_)
LStrip(s) ==
    IF s # <<>> /\ Head(s) \in Whitespace THEN LStrip(Tail(s)) ELSE s

RECURSIVE RStrip(_)
RStrip(s) ==
    IF s # <<>> /\ s[Len(s)] \in Whitespace
    THEN RStrip(SubSeq(s, 1, Len(s) - 1))
    ELSE s

\* str.strip()
Strip(s) == RStrip(LStrip(s))

\* s[:n]
Prefix(s, n) == SubSeq(s, 1, IF Len(s) < n THEN Len(s) ELSE n)

\* s.startswith(p)
StartsWith(s, p) == Len(p) <= Len(s) /\ SubSeq(s, 1, Len(p)) = p

\* s.replace("\n", " ")
ReplaceNewlines(s) == [i \in 1..Len(s) |-> IF s[i] = "\n" THEN " " ELSE s[i]]

Digit(d) == <<"0", "1", "2", "3", "4", "5", "6", "7", "8", "9">>[d + 1]

\* str(n) for a natural number
RECURSIVE Str(_)
Str(n) == IF n < 10 THEN <<Digit(n)>> ELSE Str(n \div 10) \o <<Digit(n % 10)>>

\* sep.join(parts)
RECURSIVE Join(_, _)
Join(sep, parts) ==
    IF parts = <<>> THEN <<>>
    ELSE IF Len(parts) = 1 THEN parts[1]
    ELSE parts[1] \o sep \o Join(sep, Tail(parts))

\* the concatenation of a sequence of sequences
RECURSIVE Flatten(_)
Flatten(ss) == IF ss = <<>> THEN <<>> ELSE Head(ss) \o Flatten(Tail(ss))

\* [x for x in s if keep[x]], for a sequence s and a predicate given as a set
RECURSIVE SelectIn(_, _)
SelectIn(s, S) ==
    IF s = <<>> THEN <<>>
    ELSE IF Head(s) \in S THEN <<Head(s)>> \o SelectIn(Tail(s), S)
    ELSE SelectIn(Tail(s), S)

IsPrefixOf(s, t) == Len(s) <= Len(t) /\ SubSeq(t, 1, Len(s)) = s

IsSuffixOf(s, t) == Len(s) <= Len(t) /\ SubSeq(t, Len(t) - Len(s) + 1, Len(t)) = s

Range(s) == {s[i] : i \in DOMAIN s}

-----------------------------------------------------------------------------
(* mcp_server_example.py: paths.  A path is absolute and is the sequence   *)
(* of its components; a tool argument is a string that pathlib parses into *)
(* [abs, parts].  The file system holds no symbolic links, so resolve()    *)
(* only removes "." and ".." components.                                   *)

cApp  == <<"a", "p", "p">>
cAppS == <<"a", "p", "p", "_", "s">>
cEtc  == <<"e", "t", "c">>
cMcp  == <<"m", "c", "p">>
cSrv  == <<"s", "r", "v", ".", "p", "y">>
cX    == <<"x">>
cDot  == <<".">>
cUp   == <<".", ".">>

\* __file__ of the server script
ServerFile == <<cApp, cMcp, cSrv>>

\* Path.parent
Parent(p) == IF p = <<>> THEN p ELSE SubSeq(p, 1, Len(p) - 1)

get_project_root == Parent(Parent(ServerFile))

\* the directories and the regular files of the file system
FsDirs == {<<>>, <<cApp>>, <<cApp, cMcp>>, <<cAppS>>, <<cEtc>>}

FsFiles == {<<cApp, cX>>, <<cApp, cMcp, cSrv>>, <<cAppS, cX>>, <<cEtc, cX>>}

\* project_root / filepath: an absolute right operand replaces the left one
PathJoin(root, arg) == IF arg.abs THEN arg.parts ELSE root \o arg.parts

\* Path.resolve(): "." is dropped, ".." drops the component before it ("/.." is "/")
RECURSIVE ResolveFrom(_, _)
ResolveFrom(done, rest) ==
    IF rest = <<>> THEN done
    ELSE IF Head(rest) = cDot THEN ResolveFrom(done, Tail(rest))
    ELSE IF Head(rest) = cUp THEN ResolveFrom(Parent(done), Tail(rest))
    ELSE ResolveFrom(Append(done, Head(rest)), Tail(rest))

Resolve(p) == ResolveFrom(<<>>, p)

\* str(path): "/" alone for the root, else "/" before every component
PathStr(p) ==
    IF p = <<>> THEN <<"/">>
    ELSE Flatten([i \in 1..Len(p) |-> <<"/">> \o p[i]])

validate_path_within_project(path, project_root) ==
    StartsWith(PathStr(Resolve(path)), PathStr(Resolve(project_root)))

\* the path lies in the tree below root (or is root): containment by components
Within(p, root) == IsPrefixOf(root, p)

Exists(p) == p \in FsDirs \cup FsFiles

Response(kind, path) == [kind |-> kind, path |-> path]

\* handle_read_file: arg is None or a parsed string
handle_read_file(arg) ==
    IF arg = None THEN Response("error", None)  \* project_root / None raises TypeError
    ELSE LET project_root == get_project_root
             full_path == Resolve(PathJoin(project_root, arg))
         IN  IF ~validate_path_within_project(full_path, project_root)
             THEN Response("denied", full_path)
             ELSE IF ~Exists(full_path) THEN Response("not_found", full_path)
             ELSE IF full_path \in FsDirs
             THEN Response("error", full_path)  \* read_text raises IsADirectoryError
             ELSE Response("contents", full_path)

\* handle_list_files: arg is None or a parsed string (the default is ".")
handle_list_files(arg) ==
    IF arg = None THEN Response("error", None)
    ELSE LET project_root == get_project_root
             dir_path == Resolve(PathJoin(project_root, arg))
         IN  IF ~validate_path_within_project(dir_path, project_root)
             THEN Response("denied", dir_path)
             ELSE IF ~Exists(dir_path) THEN Response("not_found", dir_path)
             ELSE IF dir_path \notin FsDirs THEN Response("not_a_directory", dir_path)
             ELSE Response("listing", dir_path)

\* the entries a "listing" response names: the children of the directory
Listing(dir_path) == {p \in FsDirs \cup FsFiles : p # <<>> /\ Parent(p) = dir_path}

MaxParts == 3

Components == {cApp, cAppS, cEtc, cX, cUp}

PathArgs ==
    {None} \cup
    [abs : BOOLEAN, parts : UNION {[1..n -> Components] : n \in 0..MaxParts}]

NoCall == [tool |-> "none", arg |-> None, resp |-> None]

ReadFile(arg) ==
    /\ mcp' = [tool |-> "read_file", arg |-> arg, resp |-> handle_read_file(arg)]
    /\ UNCHANGED <<ragVars, pair, running>>

ListFiles(arg) ==
    /\ mcp' = [tool |-> "list_files", arg |-> arg, resp |-> handle_list_files(arg)]
    /\ UNCHANGED <<ragVars, pair, running>>

NextMcp ==
    \/ \E arg \in PathArgs : ListFiles(arg)
    \/ \E arg \in PathArgs : ReadFile(arg)

-----------------------------------------------------------------------------
(* gradio_rag_app.py: uploaded files and load_document.                    *)
(* An uploaded file is [dir, name, ext, parts, corrupt]: file.name is      *)
(* dir + name, ext is Path(file_path).suffix.lower(), parts is the text    *)
(* the parser library finds in the file (the pages of a PDF, the           *)
(* paragraphs of a Word file, the one text shape of each slide of a        *)
(* presentation, the content of a text file) and corrupt says that the     *)
(* parser raises on it.                                                    *)

UploadDir == <<"/", "t", "m", "p", "/">>

File(name, ext, parts, corrupt) ==
    [dir |-> UploadDir, name |-> name, ext |-> ext, parts |-> parts, corrupt |-> corrupt]

fA == File(<<"a", ".", "t", "x", "t">>, ".txt", <<<<"x">>>>, FALSE)
fB == File(<<"b", ".", "p", "d", "f">>, ".pdf", <<<<"y">>, <<"z">>>>, FALSE)
fE == File(<<"e", ".", "t", "x", "t">>, ".txt", <<<<" ", "\n">>>>, FALSE)
fD == File(<<"d", ".", "d", "o", "c", "x">>, ".docx", <<<<" ">>>>, FALSE)
fP == File(<<"p", ".", "p", "p", "t", "x">>, ".pptx", <<<<"w">>>>, FALSE)
fU == File(<<"u", ".", "c", "s", "v">>, ".csv", <<<<"v">>>>, FALSE)
fC == File(<<"c", ".", "p", "d", "f">>, ".pdf", <<>>, TRUE)

\* the entries of an upload: files, and None (skipped by index_documents)
Uploads == {fA, fB, fE, fD, fP, fU, fC, None}

file_path(f) == f.dir \o f.name

\* Path(file_path).name
PathName(f) == f.name

Document(page_content, metadata) == [page_content |-> page_content, metadata |-> metadata]

Raised(e) == [raised |-> TRUE, e |-> e]

Returned(v) == [raised |-> FALSE, value |-> v]

\* "Slide n:\n" + text, for the slides whose text is not blank
SlideTexts(parts) ==
    LET keep == {i \in 1..Len(parts) : Strip(parts[i]) # <<>>}
        idx == SelectIn([i \in 1..Len(parts) |-> i], keep)
    IN  [j \in 1..Len(idx) |->
            <<"S", "l", "i", "d", "e", " ">> \o Str(idx[j]) \o <<":", "\n">> \o parts[idx[j]]]

NonBlank(parts) ==
    LET keep == {i \in 1..Len(parts) : Strip(parts[i]) # <<>>}
        idx == SelectIn([i \in 1..Len(parts) |-> i], keep)
    IN  [j \in 1..Len(idx) |-> parts[idx[j]]]

\* the exception load_document re-raises: "Error loading document <path>: <cause>"
LoadError(f, cause) == Raised([file_path |-> file_path(f), cause |-> cause])

load_document(f) ==
    IF f.ext = ".pdf" THEN
        IF f.corrupt THEN LoadError(f, "parse")
        ELSE Returned([i \in 1..Len(f.parts) |->
                 Document(f.parts[i], [source |-> file_path(f), page |-> i - 1])])
    ELSE IF f.ext \in {".doc", ".docx"} THEN
        IF f.corrupt THEN LoadError(f, "parse")
        ELSE LET full_text == Join(<<"\n">>, NonBlank(f.parts))
             IN  IF Strip(full_text) = <<>> THEN LoadError(f, "Document appears to be empty")
                 ELSE Returned(<<Document(full_text, [source |-> PathName(f)])>>)
    ELSE IF f.ext \in {".ppt", ".pptx"} THEN
        IF f.corrupt THEN LoadError(f, "parse")
        ELSE LET full_text == Join(<<"\n", "\n">>, SlideTexts(f.parts))
             IN  IF Strip(full_text) = <<>>
                 THEN LoadError(f, "Presentation appears to be empty")
                 ELSE Returned(<<Document(full_text, [source |-> PathName(f)])>>)
    ELSE IF f.ext = ".txt" THEN
        IF f.corrupt THEN LoadError(f, "parse")
        ELSE Returned(<<Document(Flatten(f.parts), [source |-> file_path(f)])>>)
    ELSE LoadError(f, "Unsupported file type")

\* metadata[key] = value
SetMeta(metadata, key, value) ==
    [k \in DOMAIN metadata \cup {key} |-> IF k = key THEN value ELSE metadata[k]]

\* a bug the loop could have: the try is around the loop, not in it, so the
\* first file that fails to load ends the loop
RECURSIVE LoadFiles_StopsAtError(_, _)
LoadFiles_StopsAtError(files, acc) ==
    IF files = <<>> THEN acc
    ELSE LET file == Head(files) IN
         IF file = None THEN LoadFiles_StopsAtError(Tail(files), acc)
         ELSE LET loaded == load_document(file) IN
              IF loaded.raised
              THEN [acc EXCEPT !.errors =
                       Append(@, [name |-> PathName(file), e |-> loaded.e])]
              ELSE LET filename == PathName(file)
                       docs == [i \in 1..Len(loaded.value) |->
                                   Document(loaded.value[i].page_content,
                                       SetMeta(SetMeta(loaded.value[i].metadata,
                                           "source", filename), "file_path", file_path(file)))]
                   IN  LoadFiles_StopsAtError(Tail(files),
                          [acc EXCEPT !.all_documents = @ \o docs,
                                      !.processed_files = Append(@, filename)])

\* the loop of index_documents over the uploaded files
RECURSIVE LoadFiles(_, _)
LoadFiles(files, acc) ==
    IF files = <<>> THEN acc
    ELSE LET file == Head(files) IN
         IF file = None THEN LoadFiles(Tail(files), acc)
         ELSE LET loaded == load_document(file) IN
              IF loaded.raised
              THEN LoadFiles(Tail(files),
                      [acc EXCEPT !.errors =
                          Append(@, [name |-> PathName(file), e |-> loaded.e])])
              ELSE LET filename == PathName(file)
                       docs == [i \in 1..Len(loaded.value) |->
                                   Document(loaded.value[i].page_content,
                                       SetMeta(SetMeta(loaded.value[i].metadata,
                                           "source", filename), "file_path", file_path(file)))]
                   IN  LoadFiles(Tail(files),
                          [acc EXCEPT !.all_documents = @ \o docs,
                                      !.processed_files = Append(@, filename)])

LoadBatch(files) ==
    LoadFiles(files, [all_documents |-> <<>>, processed_files |-> <<>>, errors |-> <<>>])

chunk_size == 1000

chunk_overlap == 200

\* RecursiveCharacterTextSplitter.split_text on a text without separators that is
\* longer than chunk_size: windows of chunk_size characters, each starting
\* chunk_size - chunk_overlap after the one before, the last one holding the rest
RECURSIVE Windows(_)
Windows(text) ==
    IF Len(text) <= chunk_size THEN <<text>>
    ELSE <<SubSeq(text, 1, chunk_size)>>
         \o Windows(SubSeq(text, chunk_size - chunk_overlap + 1, Len(text)))

\* RecursiveCharacterTextSplitter.split_text: a text of at most chunk_size
\* characters is one chunk, stripped, and no chunk when that is empty
split_text(text) ==
    IF Len(text) <= chunk_size
    THEN IF Strip(text) = <<>> THEN <<>> ELSE <<Strip(text)>>
    ELSE Windows(text)

\* text_splitter.split_documents: the chunks of every document, in order, each
\* with a copy of its document's metadata
split_documents(docs) ==
    Flatten([d \in 1..Len(docs) |->
        LET pieces == split_text(docs[d].page_content)
        IN  [i \in 1..Len(pieces) |-> Document(pieces[i], docs[d].metadata)]])

\* a bug the numbering loop could have: enumerate(chunks, 1)
number_chunks_from_one(chunks) ==
    [i \in 1..Len(chunks) |->
        IF "chunk_index" \in DOMAIN chunks[i].metadata THEN chunks[i]
        ELSE Document(chunks[i].page_content,
                 SetMeta(chunks[i].metadata, "chunk_index", i))]

\* the loop that numbers the chunks
number_chunks(chunks) ==
    [i \in 1..Len(chunks) |->
        IF "chunk_index" \in DOMAIN chunks[i].metadata THEN chunks[i]
        ELSE Document(chunks[i].page_content,
                 SetMeta(chunks[i].metadata, "chunk_index", i - 1))]

\* the chunks index_documents builds from the loaded documents
make_chunks(all_documents) == number_chunks(split_documents(all_documents))

-----------------------------------------------------------------------------
(* gradio_rag_app.py: the vector store and the retriever.                  *)
(* Every QdrantClient(location=":memory:") is an instance of its own with  *)
(* its own collections; clients maps the instances that a global still     *)
(* refers to (directly or through the retriever) to the content of their   *)
(* collection "gradio_rag_documents", the stored chunks in insertion order.*)

\* the id of a new client: the least one no live client has
NewId(cl) == CHOOSE i \in 1..(Cardinality(DOMAIN cl) + 1) :
                 i \notin DOMAIN cl /\ \A j \in 1..(i - 1) : j \in DOMAIN cl

\* the clients still referred to by the vectorstore or the retriever
Live(cl, vs, ret) ==
    LET refs == {vs} \cup (IF ret = None THEN {} ELSE {ret.store})
    IN  [i \in DOMAIN cl \cap refs |-> cl[i]]

\* QdrantClient(location=":memory:") followed by create_collection
WithNewClient(cl) == [i \in DOMAIN cl \cup {NewId(cl)} |-> IF i \in DOMAIN cl THEN cl[i] ELSE <<>>]

\* a bug add_documents could have: a chunk whose text and source are already
\* stored is skipped
add_documents_dedup(collection, chunks) ==
    LET known == {[page_content |-> c.page_content, source |-> c.metadata.source] :
                     c \in Range(collection)}
        fresh == {c \in Range(chunks) :
                     [page_content |-> c.page_content, source |-> c.metadata.source]
                         \notin known}
    IN  collection \o SelectIn(chunks, fresh)

\* a bug add_documents could have: the points are never written
add_documents_lost(collection, chunks) == collection

\* vectorstore.add_documents(chunks): one new point per chunk, nothing replaced
add_documents(collection, chunks) == collection \o chunks

\* vectorstore.as_retriever: MMR, or similarity search when MMR is not supported
as_retriever(vs, mmr) ==
    [store |-> vs, search_type |-> IF mmr THEN "mmr" ELSE "similarity"]

\* search_kwargs
k == 10

fetch_k == 20

Min(a, b) == IF a < b THEN a ELSE b

\* how many chunks a search returns from a collection of n
ResultSize(search_type, n) ==
    IF search_type = "mmr" THEN Min(k, Min(fetch_k, n)) ELSE Min(k, n)

\* retriever.invoke(question) on a collection: the chunks of some distinct
\* points, in the order of their rank (which the embeddings decide)
Retrievals(collection, search_type) ==
    LET n == Len(collection)
        m == ResultSize(search_type, n)
        ranks == {r \in [1..m -> 1..n] : \A i, j \in 1..m : r[i] = r[j] => i = j}
    IN  {[i \in 1..m |-> collection[r[i]]] : r \in ranks}

-----------------------------------------------------------------------------
(* gradio_rag_app.py: query_rag.                                           *)

\* doc.metadata.get("source", "Unknown")
SourceOf(doc) ==
    IF "source" \in DOMAIN doc.metadata THEN doc.metadata.source
    ELSE <<"U", "n", "k", "n", "o", "w", "n">>

\* sources_dict, a dict in insertion order: the sequence of its (key, value) items
RECURSIVE GroupInto(_, _)
GroupInto(items, docs) ==
    IF docs = <<>> THEN items
    ELSE LET doc == Head(docs)
             source == SourceOf(doc)
             at == {i \in 1..Len(items) : items[i].source = source}
         IN  IF at = {}
             THEN GroupInto(Append(items, [source |-> source, docs |-> <<doc>>]), Tail(docs))
             ELSE GroupInto([i \in 1..Len(items) |->
                                IF i \in at
                                THEN [items[i] EXCEPT !.docs = Append(@, doc)]
                                ELSE items[i]],
                            Tail(docs))

\* a bug sources_dict could have: every chunk opens an entry of its own
sources_dict_ungrouped(docs) ==
    [i \in 1..Len(docs) |-> [source |-> SourceOf(docs[i]), docs |-> <<docs[i]>>]]

sources_dict(docs) == GroupInto(<<>>, docs)

\* "[Document: {source} | Chunk {idx}]"
Label(source, idx) ==
    <<"[", "D", "o", "c", "u", "m", "e", "n", "t", ":", " ">> \o source
    \o <<" ", "|", " ", "C", "h", "u", "n", "k", " ">> \o Str(idx) \o <<"]">>

\* a bug context_parts could have: the label carries the chunk's batch-wide
\* chunk_index (from 1) instead of its place among the chunks of its source
context_parts_by_chunk_index(items) ==
    Flatten([s \in 1..Len(items) |->
        [idx \in 1..Len(items[s].docs) |->
            Label(items[s].source,
                  IF "chunk_index" \in DOMAIN items[s].docs[idx].metadata
                  THEN items[s].docs[idx].metadata.chunk_index + 1 ELSE idx)
            \o <<"\n">> \o items[s].docs[idx].page_content]])

\* context_parts: one labelled entry per chunk, source after source
context_parts(items) ==
    Flatten([s \in 1..Len(items) |->
        [idx \in 1..Len(items[s].docs) |->
            Label(items[s].source, idx) \o <<"\n">> \o items[s].docs[idx].page_content]])

Separator == <<"\n", "\n", "-", "-", "-", "\n", "\n">>

\* context = "\n\n---\n\n".join(context_parts)
context_of(docs) == Join(Separator, context_parts(sources_dict(docs)))

context_limit == 6000

\* a bug chain_input could have: the answers of the earlier turns are put in
\* front of the context
chain_input_with_history(context, question, history) ==
    [context |-> Prefix(Flatten([i \in 1..Len(history) |-> history[i][2]]) \o context,
                        context_limit),
     question |-> question]

\* a bug chain_input could have: a context over the limit is cut before the
\* last chunk that does not fit as a whole
chain_input_whole_chunks(context, question, history) ==
    LET breaks == {n \in 0..Min(Len(context), context_limit) :
                      n = 0 \/ SubSeq(context, n + 1, n + Len(Separator)) = Separator}
        last_break == CHOOSE n \in breaks : \A m \in breaks : m <= n
    IN  [context |-> IF Len(context) <= context_limit THEN context
                     ELSE SubSeq(context, 1, last_break),
         question |-> question]

\* the variables chain.invoke is given, built from the locals of query_rag
chain_input(context, question, history) ==
    [context |-> Prefix(context, context_limit), question |-> question]

\* c * n
Rep(c, n) == [i \in 1..n |-> c]

rule_width == 60

shown_chunks == 3

preview_chars == 150

\* one preview line of the sources section
PreviewLine(idx, doc) ==
    LET cut == Strip(ReplaceNewlines(Prefix(doc.page_content, preview_chars)))
        preview == IF Len(doc.page_content) > preview_chars
                   THEN cut \o <<".", ".", ".">> ELSE cut
    IN  <<" ", " ", " ", "<bullet>", " ", "C", "h", "u", "n", "k", " ">> \o Str(idx)
        \o <<":", " ", "_">> \o preview \o <<"_", "\n">>

\* a bug SourceLines could have: every chunk of the document gets a preview
SourceLines_all_chunks(item) ==
    <<"<page>", " ", "*", "*">> \o item.source \o <<"*", "*", " ", "(">>
    \o Str(Len(item.docs))
    \o <<" ", "c", "h", "u", "n", "k", "(", "s", ")", ")", "\n">>
    \o Flatten([idx \in 1..Len(item.docs) |-> PreviewLine(idx, item.docs[idx])])
    \o <<"\n">>

\* the lines of one source document in the sources section
SourceLines(item) ==
    LET n == Len(item.docs)
        shown == Prefix(item.docs, shown_chunks)
    IN  <<"<page>", " ", "*", "*">> \o item.source \o <<"*", "*", " ", "(">> \o Str(n)
        \o <<" ", "c", "h", "u", "n", "k", "(", "s", ")", ")", "\n">>
        \o Flatten([idx \in 1..Len(shown) |-> PreviewLine(idx, shown[idx])])
        \o (IF n > shown_chunks
            THEN <<" ", " ", " ", "<bullet>", " ", ".", ".", ".", " ", "a", "n", "d", " ">>
                 \o Str(n - shown_chunks)
                 \o <<" ", "m", "o", "r", "e", " ", "c", "h", "u", "n", "k", "(", "s", ")", "\n">>
            ELSE <<>>)
        \o <<"\n">>

sources_section(docs) ==
    LET items == sources_dict(docs)
    IN  <<"\n", "\n">> \o Rep("=", rule_width)
        \o <<"\n", "<books>", " ", "*", "*", "S", "o", "u", "r", "c", "e", "s", " ",
             "U", "s", "e", "d", "*", "*", " ", "(">> \o Str(Len(items))
        \o <<" ", "d", "o", "c", "u", "m", "e", "n", "t", "(", "s", ")", ",", " ">>
        \o Str(Len(docs)) \o <<" ", "c", "h", "u", "n", "k", "(", "s", ")", ")", "\n">>
        \o Rep("=", rule_width) \o <<"\n", "\n">>
        \o Flatten([s \in 1..Len(items) |-> SourceLines(items[s])])

\* f"<cross> Error processing query: {str(e)}"
error_msg(e) ==
    <<"<cross>", " ", "E", "r", "r", "o", "r", " ", "p", "r", "o", "c", "e", "s", "s", "i",
      "n", "g", " ", "q", "u", "e", "r", "y", ":", " ">> \o e

\* what one query_rag call does: whether it raised, the two values it returned,
\* and the calls it made (retrieved: the outcome of retriever.invoke; context:
\* the local of that name; sent and completion: the input and the outcome of
\* chain.invoke)
QueryResult(raised, msg, history, calls) ==
    [raised |-> raised, msg |-> msg, history |-> history, retrieved |-> calls.retrieved,
     context |-> calls.context, sent |-> calls.sent, completion |-> calls.completion]

Calls(retrieved, context, sent, completion) ==
    [retrieved |-> retrieved, context |-> context, sent |-> sent, completion |-> completion]

NoCalls == Calls(None, None, None, None)

\* a bug the except clause could have: the error starts a new history
except_clause_drops_history(question, history, e, calls) ==
    QueryResult(FALSE, "", <<<<question, error_msg(e)>>>>, calls)

\* a bug the except clause could have: the error is raised again
except_clause_reraises(question, history, e, calls) ==
    QueryResult(TRUE, "", history, calls)

\* the except clause of query_rag: the error becomes the answer of a new turn
except_clause(question, history, e, calls) ==
    QueryResult(FALSE, "", Append(history, <<question, error_msg(e)>>), calls)

\* a different return for an empty retrieval: the message is recorded as a turn
no_documents_recorded(question, history, calls) ==
    QueryResult(FALSE, "",
        Append(history,
            <<question, <<"N", "o", " ", "d", "o", "c", "u", "m", "e", "n", "t", "s">> >>),
        calls)

\* the return of query_rag when the retriever finds nothing
no_documents(question, history, calls) ==
    QueryResult(FALSE, "No relevant documents found. Please index some documents first.",
                history, calls)

\* query_rag(question, history) with the globals retriever (retr) and llm
\* (model) and the outcomes of its two external calls
query_rag(question, history, retr, model, retrieval, completion) ==
    IF Strip(question) = <<>>
    THEN QueryResult(FALSE, "", history, NoCalls)
    ELSE IF retr = None \/ ~model
    THEN QueryResult(FALSE, "Please initialize components and index documents first!",
                     history, NoCalls)
    ELSE IF retrieval.raised
    THEN except_clause(question, history, retrieval.e, Calls(retrieval, None, None, None))
    ELSE IF retrieval.value = <<>>
    THEN no_documents(question, history, Calls(retrieval, None, None, None))
    ELSE LET docs == retrieval.value
             context == context_of(docs)
             sent == chain_input(context, question, history)
             calls == Calls(retrieval, context, sent, completion)
         IN  IF completion.raised
             THEN except_clause(question, history, completion.e, calls)
             ELSE LET answer_with_sources == completion.value \o sources_section(docs)
                  IN  QueryResult(FALSE, "",
                          Append(history, <<question, answer_with_sources>>), calls)

-----------------------------------------------------------------------------
(* The handlers as actions on the globals.  The UI runs one handler at a   *)
(* time: a handler runs to its return, the UI takes the returned values    *)
(* (Deliver) and only then is the next event handled.                      *)

MaxBatch == 2

MaxChunks == 2

MaxHistory == 1

Batches == UNION {[1..n -> Uploads] : n \in 0..MaxBatch}

Questions == {<<>>, <<" ">>, <<"q">>}

Turns == {<< <<"r", "?">>, <<"A">> >>}

Histories == UNION {[1..n -> Turns] : n \in 0..MaxHistory}

\* the outcomes of chain.invoke: the model's answer, or an error
Completions == {Returned(<<"A">>), Raised(<<"L">>)}

RetrievalError == Raised(<<"R">>)

Idle == [op |-> "none"]

NotCleared == [is |-> FALSE, dropped |-> FALSE]

\* initialize_components(), called once by create_interface: raises when the
\* API key is missing
InitializeComponents(has_key) ==
    /\ last = Idle
    /\ vectorstore = 0
    /\ IF ~has_key
       THEN /\ last' = [op |-> "initialize_components", raised |-> TRUE]
            /\ UNCHANGED <<embeddings, llm, vectorstore, retriever, clients>>
       ELSE LET cl == WithNewClient(clients)
                vs == NewId(clients)
                ret == as_retriever(vs, mmr_ok)
            IN  /\ embeddings' = TRUE
                /\ llm' = TRUE
                /\ vectorstore' = vs
                /\ retriever' = ret
                /\ clients' = Live(cl, vs, ret)
                /\ last' = [op |-> "initialize_components", raised |-> FALSE]
    /\ UNCHANGED <<cleared, batch, mmr_ok, mcp, pair, running>>

IndexStatus(kind, n_chunks, processed_files, errors) ==
    [kind |-> kind, n_chunks |-> n_chunks, processed_files |-> processed_files,
     errors |-> errors]

\* what one index_documents call does: the status it returns, its locals and
\* the collection before the call
IndexResult(files, status, loaded, chunks, before) ==
    [op |-> "index_documents", files |-> files, status |-> status,
     processed_files |-> loaded.processed_files, errors |-> loaded.errors,
     chunks |-> chunks, before |-> before]

NothingLoaded == [all_documents |-> <<>>, processed_files |-> <<>>, errors |-> <<>>]

\* what the loop of index_documents loads from each batch, and the chunks it
\* makes of that: both depend on the batch alone
Loaded == [files \in Batches |-> LoadBatch(files)]

Chunks == [files \in Batches |-> make_chunks(Loaded[files].all_documents)]

\* the content of the collection the global vectorstore writes to
Collection == IF vectorstore = 0 THEN <<>> ELSE clients[vectorstore]

\* index_documents(files) returning before it writes
IndexNothing(files) ==
    /\ last = Idle
    /\ \/ /\ files = <<>>
          /\ last' = IndexResult(files, IndexStatus("no_files", 0, <<>>, <<>>),
                                 NothingLoaded, <<>>, Collection)
       \/ /\ files # <<>>
          /\ vectorstore = 0
          /\ last' = IndexResult(files, IndexStatus("not_initialized", 0, <<>>, <<>>),
                                 NothingLoaded, <<>>, Collection)
       \/ /\ files # <<>>
          /\ vectorstore # 0
          /\ LET loaded == Loaded[files] IN
             /\ loaded.all_documents = <<>>
             /\ last' = IndexResult(files,
                            IndexStatus("no_documents", 0, <<>>, loaded.errors),
                            loaded, <<>>, Collection)
    /\ cleared' = NotCleared
    /\ UNCHANGED <<embeddings, llm, vectorstore, retriever, clients, batch, mmr_ok, mcp, pair, running>>

\* index_documents(files) when add_documents raises (its embedding call fails)
IndexFails(files) ==
    /\ last = Idle
    /\ files # <<>>
    /\ vectorstore # 0
    /\ LET loaded == Loaded[files]
           chunks == Chunks[files]
       IN  /\ loaded.all_documents # <<>>
           /\ chunks # <<>>
           /\ Len(clients[vectorstore]) + Len(chunks) <= MaxChunks
           /\ last' = IndexResult(files, IndexStatus("index_error", 0, <<>>, <<>>),
                                  loaded, chunks, Collection)
    /\ cleared' = NotCleared
    /\ UNCHANGED <<embeddings, llm, vectorstore, retriever, clients, batch, mmr_ok, mcp, pair, running>>

\* index_documents(files) when add_documents returns
IndexDocuments(files) ==
    /\ last = Idle
    /\ files # <<>>
    /\ vectorstore # 0
    /\ LET loaded == Loaded[files]
           chunks == Chunks[files]
           ret == as_retriever(vectorstore, mmr_ok)
           cl == [clients EXCEPT ![vectorstore] = add_documents(@, chunks)]
       IN  /\ loaded.all_documents # <<>>
           /\ Len(clients[vectorstore]) + Len(chunks) <= MaxChunks
           /\ clients' = Live(cl, vectorstore, ret)
           /\ retriever' = ret
           /\ batch' = chunks
           /\ last' = IndexResult(files,
                          IndexStatus("success", Len(chunks),
                              loaded.processed_files, loaded.errors),
                          loaded, chunks, Collection)
    /\ cleared' = NotCleared
    /\ UNCHANGED <<embeddings, llm, vectorstore, mmr_ok, mcp, pair, running>>

\* a bug clear_index could have: retriever is not declared global, so the
\* global retriever stays bound to the old vector store
ClearIndex_KeepsRetriever ==
    /\ last = Idle
    /\ IF ~embeddings
       THEN /\ last' = [op |-> "clear_index", status |-> "error"]
            /\ UNCHANGED <<vectorstore, retriever, clients, cleared, batch>>
       ELSE LET cl == WithNewClient(clients)
                vs == NewId(clients)
            IN  /\ vectorstore' = vs
                /\ retriever' = retriever
                /\ clients' = Live(cl, vs, retriever)
                /\ cleared' = [is |-> TRUE, dropped |-> Collection # <<>>]
                /\ batch' = <<>>
                /\ last' = [op |-> "clear_index", status |-> "success"]
    /\ UNCHANGED <<embeddings, llm, mmr_ok, mcp, pair, running>>

\* clear_index(): Qdrant(...) raises when embeddings is None
ClearIndex ==
    /\ last = Idle
    /\ IF ~embeddings
       THEN /\ last' = [op |-> "clear_index", status |-> "error"]
            /\ UNCHANGED <<vectorstore, retriever, clients, cleared, batch>>
       ELSE LET cl == WithNewClient(clients)
                vs == NewId(clients)
                ret == as_retriever(vs, mmr_ok)
            IN  /\ vectorstore' = vs
                /\ retriever' = ret
                /\ clients' = Live(cl, vs, ret)
                /\ cleared' = [is |-> TRUE, dropped |-> Collection # <<>>]
                /\ batch' = <<>>
                /\ last' = [op |-> "clear_index", status |-> "success"]
    /\ UNCHANGED <<embeddings, llm, mmr_ok, mcp, pair, running>>

\* the outcomes of retriever.invoke: an error, or a ranking of the collection
\* the retriever is bound to
RetrievalOutcomes ==
    IF retriever = None THEN {RetrievalError}
    ELSE {RetrievalError} \cup
         {Returned(docs) : docs \in Retrievals(clients[retriever.store], retriever.search_type)}

\* query_rag(question, history)
QueryRag(question, history, retrieval, completion) ==
    /\ last = Idle
    /\ last' = [op |-> "query_rag", question |-> question, history |-> history,
                ret |-> query_rag(question, history, retriever, llm, retrieval, completion)]
    /\ UNCHANGED <<embeddings, llm, vectorstore, retriever, clients, cleared, batch,
                   mmr_ok, mcp, pair, running>>

\* the UI takes the values the handler returned
Deliver ==
    /\ last # Idle
    /\ last' = Idle
    /\ UNCHANGED <<embeddings, llm, vectorstore, retriever, clients, cleared, batch,
                   mmr_ok, mcp, pair, running>>

NoPair == [called |-> FALSE]

\* a handler that no worker thread is running
NotRunning == [pc |-> "idle", chunks |-> <<>>, ret |-> None, status |-> "none"]

NoneRunning == [index |-> NotRunning, clear |-> NotRunning]

Init ==
    /\ embeddings = FALSE
    /\ llm = FALSE
    /\ vectorstore = 0
    /\ retriever = None
    /\ clients = <<>>
    /\ last = Idle
    /\ cleared = NotCleared
    /\ batch = <<>>
    /\ mmr_ok \in BOOLEAN
    /\ mcp = NoCall
    /\ pair = NoPair
    /\ running = NoneRunning

\* an event is handled only when the handler before it has returned
Next ==
    \/ last = Idle /\ \E has_key \in BOOLEAN : InitializeComponents(has_key)
    \/ last = Idle /\ \E files \in Batches : IndexNothing(files)
    \/ last = Idle /\ \E files \in Batches : IndexDocuments(files)
    \/ last = Idle /\ \E files \in Batches : IndexFails(files)
    \/ ClearIndex
    \/ last = Idle /\ \E question \in Questions, history \in Histories,
                         retrieval \in RetrievalOutcomes, completion \in Completions :
                            QueryRag(question, history, retrieval, completion)
    \/ Deliver

Spec == Init /\ [][Next]_vars

SpecMcp == Init /\ [][NextMcp]_vars

-----------------------------------------------------------------------------
(* The handlers as threads.  Every event listener of the interface has a   *)
(* queue of its own that runs one call at a time in a worker thread, so a  *)
(* call of index_documents and a call of clear_index can overlap.  A step  *)
(* of a thread holds at most one read or write of the globals vectorstore  *)
(* and retriever.                                                          *)

StoreOf(ret) == IF ret = None THEN {} ELSE {ret.store}

\* the clients still referred to by a global or by a local of a running call
Kept(cl, vs, ret, run) ==
    LET refs == {vs} \cup StoreOf(ret) \cup StoreOf(run.index.ret) \cup StoreOf(run.clear.ret)
    IN  [i \in DOMAIN cl \cap refs |-> cl[i]]

\* a call at its return statement
Returning(status) == [pc |-> "return", chunks |-> <<>>, ret |-> None, status |-> status]

\* index_documents(files) up to the numbering of its chunks: it reads the
\* global vectorstore once, for the test that it is not None
IndexBegin(files) ==
    /\ running.index.pc = "idle"
    /\ running' = [running EXCEPT !.index =
           IF files = <<>> THEN Returning("no_files")
           ELSE IF vectorstore = 0 THEN Returning("not_initialized")
           ELSE IF Loaded[files].all_documents = <<>> THEN Returning("no_documents")
           ELSE [pc |-> "add", chunks |-> Chunks[files], ret |-> None, status |-> "none"]]
    /\ UNCHANGED <<embeddings, llm, vectorstore, retriever, clients, last, cleared, batch,
                   mmr_ok, mcp, pair>>

\* vectorstore.add_documents(chunks) on the store the global names now
IndexAdd ==
    /\ running.index.pc = "add"
    /\ Len(clients[vectorstore]) + Len(running.index.chunks) <= MaxChunks
    /\ clients' = [clients EXCEPT
                      ![vectorstore] = add_documents(@, running.index.chunks)]
    /\ running' = [running EXCEPT !.index =
           [pc |-> "bind", chunks |-> <<>>, ret |-> None, status |-> "none"]]
    /\ UNCHANGED <<embeddings, llm, vectorstore, retriever, last, cleared, batch,
                   mmr_ok, mcp, pair>>

\* vectorstore.add_documents(chunks) raises
IndexAddFails ==
    /\ running.index.pc = "add"
    /\ running' = [running EXCEPT !.index = Returning("index_error")]
    /\ UNCHANGED <<embeddings, llm, vectorstore, retriever, clients, last, cleared, batch,
                   mmr_ok, mcp, pair>>

\* the right-hand side of retriever = vectorstore.as_retriever(...): the global
\* vectorstore is read and the retriever object is built
IndexBind ==
    /\ running.index.pc = "bind"
    /\ running' = [running EXCEPT !.index =
           [pc |-> "store", chunks |-> <<>>, ret |-> as_retriever(vectorstore, mmr_ok),
            status |-> "none"]]
    /\ UNCHANGED <<embeddings, llm, vectorstore, retriever, clients, last, cleared, batch,
                   mmr_ok, mcp, pair>>

\* the assignment to the global retriever
IndexStore ==
    /\ running.index.pc = "store"
    /\ retriever' = running.index.ret
    /\ running' = [running EXCEPT !.index = Returning("success")]
    /\ clients' = Kept(clients, vectorstore, retriever', running')
    /\ UNCHANGED <<embeddings, llm, vectorstore, last, cleared, batch, mmr_ok, mcp, pair>>

\* index_documents returns
IndexReturn ==
    /\ running.index.pc = "return"
    /\ running' = [running EXCEPT !.index = NotRunning]
    /\ UNCHANGED <<embeddings, llm, vectorstore, retriever, clients, last, cleared, batch,
                   mmr_ok, mcp, pair>>

\* clear_index() up to the assignment to the global vectorstore: a new client
\* with an empty collection, and Qdrant(...) raises when embeddings is None
ClearBegin ==
    /\ running.clear.pc = "idle"
    /\ IF ~embeddings
       THEN /\ running' = [running EXCEPT !.clear = Returning("error")]
            /\ UNCHANGED <<vectorstore, clients>>
       ELSE /\ vectorstore' = NewId(clients)
            /\ running' = [running EXCEPT !.clear =
                   [pc |-> "bind", chunks |-> <<>>, ret |-> None, status |-> "none"]]
            /\ clients' = Kept(WithNewClient(clients), vectorstore', retriever, running')
    /\ UNCHANGED <<embeddings, llm, retriever, last, cleared, batch, mmr_ok, mcp, pair>>

\* the right-hand side of retriever = vectorstore.as_retriever(...)
ClearBind ==
    /\ running.clear.pc = "bind"
    /\ running' = [running EXCEPT !.clear =
           [pc |-> "store", chunks |-> <<>>, ret |-> as_retriever(vectorstore, mmr_ok),
            status |-> "none"]]
    /\ UNCHANGED <<embeddings, llm, vectorstore, retriever, clients, last, cleared, batch,
                   mmr_ok, mcp, pair>>

\* the assignment to the global retriever
ClearStore ==
    /\ running.clear.pc = "store"
    /\ retriever' = running.clear.ret
    /\ running' = [running EXCEPT !.clear = Returning("success")]
    /\ clients' = Kept(clients, vectorstore, retriever', running')
    /\ UNCHANGED <<embeddings, llm, vectorstore, last, cleared, batch, mmr_ok, mcp, pair>>

\* clear_index returns
ClearReturn ==
    /\ running.clear.pc = "return"
    /\ running' = [running EXCEPT !.clear = NotRunning]
    /\ UNCHANGED <<embeddings, llm, vectorstore, retriever, clients, last, cleared, batch,
                   mmr_ok, mcp, pair>>

\* initialize_components runs before the interface takes events
NextThreads ==
    \/ running = NoneRunning /\ last = Idle
          /\ \E has_key \in BOOLEAN : InitializeComponents(has_key)
    \/ Deliver
    \/ running.index.pc = "idle" /\ \E files \in Batches : IndexBegin(files)
    \/ IndexAdd
    \/ IndexAddFails
    \/ IndexBind
    \/ IndexStore
    \/ IndexReturn
    \/ ClearBegin
    \/ ClearBind
    \/ ClearStore
    \/ ClearReturn

SpecThreads == Init /\ [][NextThreads]_vars

-----------------------------------------------------------------------------
(* query_rag as a function of its arguments, the two globals it reads and  *)
(* the outcomes of its external calls: SpecQuery runs it twice, on two     *)
(* different histories and the same everything else.                       *)

MaxDocs == 3

kA0 == Document(<<"x">>,
           [source |-> fA.name, file_path |-> file_path(fA), chunk_index |-> 0])
kA1 == Document(<<"y", "\n", "z">>,
           [source |-> fA.name, file_path |-> file_path(fA), chunk_index |-> 1])
kB0 == Document(<<"y">>,
           [source |-> fB.name, page |-> 0, file_path |-> file_path(fB), chunk_index |-> 2])

SampleChunks == {kA0, kA1, kB0}

SampleRetrievals ==
    {RetrievalError} \cup
    {Returned(docs) : docs \in UNION {[1..n -> SampleChunks] : n \in 0..MaxDocs}}

SampleRetrievers == {None, as_retriever(1, TRUE)}

QueryPair(question, h1, h2, retr, model, retrieval, completion) ==
    /\ pair = NoPair
    /\ h1 # h2
    /\ pair' = [called |-> TRUE, question |-> question, h1 |-> h1, h2 |-> h2,
                retr |-> retr, model |-> model,
                r1 |-> query_rag(question, h1, retr, model, retrieval, completion),
                r2 |-> query_rag(question, h2, retr, model, retrieval, completion)]
    /\ UNCHANGED <<ragVars, mcp, running>>

ResetPair ==
    /\ pair # NoPair
    /\ pair' = NoPair
    /\ UNCHANGED <<ragVars, mcp, running>>

\* one pair of runs at a time
NextQuery ==
    \/ pair = NoPair /\ \E question \in Questions, h1, h2 \in Histories,
                           retr \in SampleRetrievers, model \in BOOLEAN,
                           retrieval \in SampleRetrievals, completion \in Completions :
                              QueryPair(question, h1, h2, retr, model, retrieval, completion)
    \/ ResetPair

SpecQuery == Init /\ [][NextQuery]_vars

-----------------------------------------------------------------------------
(* The chunks index_documents makes of a batch, as a function of the batch:*)
(* SpecChunks loads and splits batches that hold files with texts longer   *)
(* than chunk_size.                                                        *)

\* a text file of chunk_size + 1 characters without a separator
fL == File(<<"l", ".", "t", "x", "t">>, ".txt", <<Rep("l", chunk_size) \o <<"m">> >>, FALSE)

\* a PDF file: a page of 2 * chunk_size - chunk_overlap + 1 characters without
\* a separator, and a short page
fM == File(<<"m", ".", "p", "d", "f">>, ".pdf",
          <<Rep("n", chunk_size) \o Rep("o", chunk_size - chunk_overlap) \o <<"p">>,
            <<"q">> >>, FALSE)

LongUploads == Uploads \cup {fL, fM}

LongBatches == UNION {[1..n -> LongUploads] : n \in 0..MaxBatch}

\* index_documents from its loop over the files to the numbering of the chunks
MakeChunks(files) ==
    /\ last = Idle
    /\ last' = [op |-> "make_chunks", files |-> files,
                chunks |-> make_chunks(LoadBatch(files).all_documents)]
    /\ UNCHANGED <<embeddings, llm, vectorstore, retriever, clients, cleared, batch,
                   mmr_ok, mcp, pair, running>>

NextChunks ==
    \/ last = Idle /\ \E files \in LongBatches : MakeChunks(files)
    \/ Deliver

SpecChunks == Init /\ [][NextChunks]_vars

-----------------------------------------------------------------------------
(* query_rag on retrievals of chunks as long as the splitter makes them:   *)
(* SpecLong runs it on up to MaxLong chunks, enough of them to pass the    *)
(* context limit and the number of previews shown per document.            *)

MaxLong == 6

\* a chunk of chunk_size characters of a.txt, a newline among its first ones
kL0 == Document(<<"a", "\n">> \o Rep("b", chunk_size - 2),
           [source |-> fA.name, file_path |-> file_path(fA), chunk_index |-> 0])

\* a chunk of chunk_size characters of a page of b.pdf
kM0 == Document(Rep("c", chunk_size),
           [source |-> fB.name, page |-> 0, file_path |-> file_path(fB), chunk_index |-> 1])

LongChunks == {kL0, kM0, kA1}

LongRetrievals ==
    {Returned(docs) : docs \in UNION {[1..n -> LongChunks] : n \in 1..MaxLong}}

NextLong ==
    \/ pair = NoPair /\ \E retrieval \in LongRetrievals, completion \in Completions :
                            QueryPair(<<"q">>, <<>>, << <<<<"r", "?">>, <<"A">>>> >>,
                                      as_retriever(1, TRUE), TRUE, retrieval, completion)
    \/ ResetPair

SpecLong == Init /\ [][NextLong]_vars

-----------------------------------------------------------------------------
(* Claims about query_rag.                                                 *)

NonBlankQuery ==
    /\ last.op = "query_rag"
    /\ Strip(last.question) # <<>>

\* the error an external call of the query raised, if one did
QueryError(r) ==
    IF r.retrieved # None /\ r.retrieved.raised THEN <<r.retrieved.e>>
    ELSE IF r.completion # None /\ r.completion.raised THEN <<r.completion.e>>
    ELSE <<>>

\* C2 (under Spec): when retriever and llm are initialized and the question
\* is not blank, an error raised by the retriever call or by the model
\* invocation does not leave query_rag: the call returns normally, and the
\* returned history is the history passed in plus exactly one turn, made of
\* the question and a string that carries the error's text.
C2_ErrorBecomesTurn ==
    (NonBlankQuery /\ retriever # None /\ llm /\ QueryError(last.ret) # <<>>) =>
        LET r == last.ret
            e == QueryError(r)[1]
            n == Len(last.history)
        IN  /\ ~r.raised
            /\ Len(r.history) = n + 1
            /\ SubSeq(r.history, 1, n) = last.history
            /\ r.history[n + 1][1] = last.question
            /\ IsSuffixOf(e, r.history[n + 1][2])

\* C2's case: the model invocation fails on a query with an earlier turn
C2_Witness ==
    /\ NonBlankQuery
    /\ last.history # <<>>
    /\ last.ret.completion # None
    /\ last.ret.completion.raised

EmptyRetrieval ==
    /\ NonBlankQuery
    /\ last.ret.retrieved = Returned(<<>>)

\* C3 as stated (under Spec): a non-blank query for which the retriever
\* returns no chunks is recorded as a conversation turn, so the returned
\* history is one turn longer than the history passed in.
C3_EmptyIsRecorded ==
    EmptyRetrieval => Len(last.ret.history) = Len(last.history) + 1

\* C3 as amended (under Spec): a non-blank query for which the retriever
\* returns no chunks is not an exception: query_rag returns a user-facing
\* message as its first value, does not invoke the model, and returns the
\* history it was passed, unchanged (no turn is recorded).
C3_EmptyIsMessageOnly ==
    EmptyRetrieval =>
        /\ ~last.ret.raised
        /\ last.ret.msg = "No relevant documents found. Please index some documents first."
        /\ last.ret.sent = None
        /\ last.ret.history = last.history

\* C3's case: a query right after the index was cleared, with an earlier turn
C3_Witness == EmptyRetrieval /\ cleared.is /\ last.history # <<>>

\* C9 (under SpecQuery): two query_rag calls with the same question and the
\* same retrieved chunks but different histories invoke the model alike:
\* either both do not, or both pass the same context and question.
C9_HistoryNotSent == pair.called => pair.r1.sent = pair.r2.sent

\* C9's case: the model is invoked, once with no history and once with one
C9_Witness ==
    /\ pair.called
    /\ pair.h1 = <<>>
    /\ pair.h2 # <<>>
    /\ pair.r1.sent # None
    /\ ~pair.r1.completion.raised

-----------------------------------------------------------------------------
(* Claims about index_documents and clear_index, under Spec.               *)

\* an index_documents call that got as far as loading the files
IndexCall ==
    /\ last.op = "index_documents"
    /\ last.status.kind \in {"no_documents", "index_error", "success"}

\* the entries of the batch that are files
FilesOf(files) == SelectIn(files, Uploads \ {None})

Count(seq, S) == Cardinality({i \in 1..Len(seq) : seq[i] \in S})

\* the text of the chunks a file yields: one per document of it that is not blank
PiecesOf(f) ==
    LET docs == load_document(f).value
    IN  {Strip(docs[i].page_content) : i \in 1..Len(docs)} \ {<<>>}

\* the chunks the call wrote: what the collection holds beyond what it held before
Written == SubSeq(Collection, Len(last.before) + 1, Len(Collection))

\* every file of the batch was tried: the ones that load are the processed
\* files, in order, and every failing one has exactly one entry in errors
EveryFileTried ==
    LET fs == FilesOf(last.files)
        ok == {f \in Range(fs) : ~load_document(f).raised}
        good == SelectIn(fs, ok)
        bad == SelectIn(fs, Range(fs) \ ok)
    IN  /\ last.processed_files = [i \in 1..Len(good) |-> good[i].name]
        /\ Len(last.errors) = Len(bad)
        /\ \A i \in 1..Len(bad) : last.errors[i].name = bad[i].name

\* every file that loaded has its chunks in what the call wrote
LoadedFilesWritten ==
    \A f \in Range(FilesOf(last.files)) :
        ~load_document(f).raised =>
            \A piece \in PiecesOf(f) :
                \E c \in Range(Written) :
                    c.page_content = piece /\ c.metadata.source = f.name

SomeLoadFails == \E f \in Range(FilesOf(last.files)) : load_document(f).raised

SupportedTypes == {".pdf", ".doc", ".docx", ".ppt", ".pptx", ".txt"}

\* the text the parser finds in the file is empty or whitespace only
BlankFile(f) ==
    /\ f.ext \in SupportedTypes
    /\ ~f.corrupt
    /\ \A i \in 1..Len(f.parts) : Strip(f.parts[i]) = <<>>

\* C5: a file of a supported type whose extracted text is empty or
\* whitespace only is a load error: it is in the error list, not among the
\* processed files, and never reported as indexed.
C5_BlankFileRejected ==
    IndexCall =>
        \A f \in Range(FilesOf(last.files)) :
            BlankFile(f) =>
                /\ \E i \in 1..Len(last.errors) : last.errors[i].name = f.name
                /\ f.name \notin Range(last.processed_files)
                /\ f.name \notin Range(last.status.processed_files)

\* a query that reached the retriever and got an answer from it
Retrieved ==
    /\ last.op = "query_rag"
    /\ last.ret.retrieved # None
    /\ ~last.ret.retrieved.raised

\* C6: once clear_index has returned its success status, and until
\* index_documents is called again, the retriever is bound to an empty
\* collection and every query retrieves no chunk at all, so none that was
\* indexed before the clear.
C6_ClearedRetrievesNothing ==
    cleared.is =>
        /\ retriever # None
        /\ clients[retriever.store] = <<>>
        /\ Retrieved => last.ret.retrieved.value = <<>>

\* C6's case: a query after a clear that dropped indexed chunks
C6_Witness ==
    /\ cleared.is
    /\ cleared.dropped
    /\ Retrieved

RECURSIVE SumSeq(_)
SumSeq(s) == IF s = <<>> THEN 0 ELSE Head(s) + SumSeq(Tail(s))

\* the number of chunks a batch yields, whatever the collection holds
ChunkCount(files) ==
    LET fs == FilesOf(files)
        n == [i \in 1..Len(fs) |->
                 IF load_document(fs[i]).raised THEN 0
                 ELSE Count(load_document(fs[i]).value,
                          {d \in Range(load_document(fs[i]).value) :
                              Strip(d.page_content) # <<>>})]
    IN  SumSeq(n)

\* C7: index_documents only appends to the collection: what was stored stays
\* as it was, and a successful call adds exactly the chunks of its batch,
\* whose number depends on the batch alone, so the same document indexed
\* again adds the same number of chunks (no deduplication) and the size
\* never decreases.
C7_IndexOnlyAppends ==
    last.op = "index_documents" =>
        /\ IsPrefixOf(last.before, Collection)
        /\ last.status.kind = "success" =>
              /\ Written = last.chunks
              /\ Len(Collection) - Len(last.before) = ChunkCount(last.files)
              /\ last.status.n_chunks = ChunkCount(last.files)

\* C7's case: a document is indexed that the collection already holds
C7_Witness ==
    /\ last.op = "index_documents"
    /\ last.status.kind = "success"
    /\ \E c \in Range(last.before), d \in Range(Written) :
           c.page_content = d.page_content /\ c.metadata.source = d.metadata.source

\* C8: after index_documents returned a success status, and until
\* clear_index, the retriever is bound to the vector store the chunks were
\* written to, its collection holds every chunk of that call, and a query
\* that the collection answers in full returns every one of them.
C8_RetrieverSeesIndexed ==
    /\ (last.op = "index_documents" /\ last.status.kind = "success") =>
           /\ retriever # None
           /\ retriever.store = vectorstore
           /\ batch = last.chunks
    /\ batch # <<>> =>
           /\ retriever # None
           /\ IsSuffixOf(batch, clients[retriever.store])
           /\ (Retrieved /\ Len(clients[retriever.store]) <= k) =>
                  Range(batch) \subseteq Range(last.ret.retrieved.value)

\* C8's case: a query after two index operations returns the last one's chunks
C8_Witness ==
    /\ Retrieved
    /\ batch # <<>>
    /\ Len(clients[retriever.store]) > Len(batch)
    /\ Range(batch) \subseteq Range(last.ret.retrieved.value)

-----------------------------------------------------------------------------
(* Claims about the assembled context, under SpecQuery.                    *)

LabelStart == <<"[", "D", "o", "c", "u", "m", "e", "n", "t", ":", " ">>

FirstChunkMark == <<" ", "|", " ", "C", "h", "u", "n", "k", " ", "1", "]", "\n">>

\* the number of places of s where pat occurs
Occurrences(s, pat) ==
    Cardinality({i \in 1..Len(s) : i + Len(pat) - 1 <= Len(s)
                                   /\ SubSeq(s, i, i + Len(pat) - 1) = pat})

\* the retrieved chunks of a run that built a context
DocsOf(r) == r.retrieved.value

DistinctSources(docs) == {SourceOf(docs[i]) : i \in 1..Len(docs)}

\* the distinct sources in the order of their first chunk
SourcesInOrder(docs) ==
    LET firsts == {i \in 1..Len(docs) :
                      \A j \in 1..(i - 1) : SourceOf(docs[j]) # SourceOf(docs[i])}
        idx == SelectIn([i \in 1..Len(docs) |-> i], firsts)
    IN  [n \in 1..Len(idx) |-> SourceOf(docs[idx[n]])]

\* the chunks of one source, in retrieval order
ChunksFrom(docs, source) ==
    SelectIn(docs, {d \in Range(docs) : SourceOf(d) = source})

\* the context as groups: source after source, each with its chunks in
\* retrieval order under labels numbered from 1
GroupedContext(docs) ==
    LET srcs == SourcesInOrder(docs)
    IN  Join(Separator,
            Flatten([s \in 1..Len(srcs) |->
                LET mine == ChunksFrom(docs, srcs[s])
                IN  [i \in 1..Len(mine) |->
                        Label(srcs[s], i) \o <<"\n">> \o mine[i].page_content]]))

\* C10 as stated: for N retrieved chunks of M distinct source documents the
\* assembled context holds exactly M headers, one per source document.
C10_OneHeaderPerSource ==
    (pair.called /\ pair.r1.context # None) =>
        Occurrences(pair.r1.context, LabelStart)
            = Cardinality(DistinctSources(DocsOf(pair.r1)))

\* C10 as amended: for N retrieved chunks of M distinct source documents the
\* assembled context holds exactly N labels, one per chunk (not one per
\* source document), in M groups, one per source document: each group opens
\* with the one label of that document numbered 1 and holds that document's
\* chunks in retrieval order.
C10_OneLabelPerChunk ==
    (pair.called /\ pair.r1.context # None) =>
        LET docs == DocsOf(pair.r1)
            context == pair.r1.context
        IN  /\ Occurrences(context, LabelStart) = Len(docs)
            /\ Occurrences(context, FirstChunkMark) = Cardinality(DistinctSources(docs))
            /\ context = GroupedContext(docs)

\* C10's case: three chunks of two documents, the second document's chunk
\* retrieved between the two of the first
C10_Witness ==
    /\ pair.called
    /\ pair.r1.context # None
    /\ Len(DocsOf(pair.r1)) = 3
    /\ SourceOf(DocsOf(pair.r1)[1]) = SourceOf(DocsOf(pair.r1)[3])
    /\ SourceOf(DocsOf(pair.r1)[1]) # SourceOf(DocsOf(pair.r1)[2])

\* the place among the retrieved chunks of the first chunk of i's source
FirstOf(docs, i) ==
    CHOOSE j \in 1..i :
        /\ SourceOf(docs[j]) = SourceOf(docs[i])
        /\ \A m \in 1..(j - 1) : SourceOf(docs[m]) # SourceOf(docs[i])

\* chunk i comes before chunk j in the context: its document was retrieved
\* first, or they are of the same document and i was retrieved first
Before(docs, i, j) ==
    \/ FirstOf(docs, i) < FirstOf(docs, j)
    \/ FirstOf(docs, i) = FirstOf(docs, j) /\ i < j

\* the place of chunk i in the context
Place(docs, i) == 1 + Cardinality({j \in 1..Len(docs) : Before(docs, j, i)})

\* the number chunk i has among the retrieved chunks of its own source
Rank(docs, i) ==
    Cardinality({j \in 1..i : SourceOf(docs[j]) = SourceOf(docs[i])})

\* C11 (under SpecQuery): in the assembled context the source documents come
\* in the order of their first retrieved chunk, the chunks of one document
\* come in retrieval order, and every chunk is labelled with its source name
\* and its number among the chunks of that source (1, 2, 3, ...), whatever
\* its batch-wide chunk_index is.
C11_StableGrouping ==
    (pair.called /\ pair.r1.context # None) =>
        LET docs == DocsOf(pair.r1)
            at == [p \in 1..Len(docs) |->
                      CHOOSE i \in 1..Len(docs) : Place(docs, i) = p]
            parts == [p \in 1..Len(docs) |->
                         Label(SourceOf(docs[at[p]]), Rank(docs, at[p]))
                         \o <<"\n">> \o docs[at[p]].page_content]
        IN  /\ \A i, j \in 1..Len(docs) : i # j => Place(docs, i) # Place(docs, j)
            /\ pair.r1.context = Join(Separator, parts)

\* C11's case: chunks of two documents retrieved interleaved, one of them
\* labelled with a number that is not its chunk_index + 1
C11_Witness ==
    /\ pair.called
    /\ pair.r1.context # None
    /\ LET docs == DocsOf(pair.r1)
       IN  /\ \E i, j, m \in 1..Len(docs) :
                  /\ i < j /\ j < m
                  /\ SourceOf(docs[i]) = SourceOf(docs[m])
                  /\ SourceOf(docs[i]) # SourceOf(docs[j])
           /\ \E i \in 1..Len(docs) : docs[i].metadata.chunk_index + 1 # Rank(docs, i)

-----------------------------------------------------------------------------
(* Claims about the history query_rag returns, under Spec.                 *)

\* an empty or whitespace-only question
IsBlank(question) == \A i \in 1..Len(question) : question[i] \in {" ", "\n", "\t"}

\* C16: the history is append-only under query_rag: the history a call
\* returns is the history it was given, or that history followed by exactly
\* one turn whose question is the submitted question; and a blank question
\* leaves the history as it was without a call of the retriever or the model.
C16_HistoryAppendOnly ==
    last.op = "query_rag" =>
        LET given == last.history
            returned == last.ret.history
        IN  /\ ~last.ret.raised
            /\ \/ returned = given
               \/ /\ Len(returned) = Len(given) + 1
                  /\ SubSeq(returned, 1, Len(given)) = given
                  /\ returned[Len(returned)][1] = last.question
            /\ IsBlank(last.question) =>
                   /\ returned = given
                   /\ last.ret.retrieved = None
                   /\ last.ret.sent = None
                   /\ last.ret.completion = None

\* C16's case: a call with earlier turns that adds a turn
C16_Witness ==
    /\ last.op = "query_rag"
    /\ last.history # <<>>
    /\ Len(last.ret.history) = Len(last.history) + 1
    /\ last.ret.history[Len(last.ret.history)][1] = last.question

\* C16's other case: a blank question with earlier turns, when the retriever
\* and the model are there to be called
C16_BlankAsked ==
    /\ last.op = "query_rag"
    /\ last.question = <<" ">>
    /\ last.history # <<>>
    /\ retriever # None /\ llm
    /\ last.ret.history = last.history

-----------------------------------------------------------------------------
(* Claims about the two globals under overlapping calls, under SpecThreads.*)

\* C15: whenever no index_documents or clear_index call is in progress, the
\* global retriever is bound to the vector store the global vectorstore
\* names (and is None while that is None), also when calls of the two
\* handlers have overlapped.
C15_RetrieverFollowsStore ==
    running = NoneRunning =>
        IF vectorstore = 0 THEN retriever = None
        ELSE retriever # None /\ retriever.store = vectorstore

-----------------------------------------------------------------------------
(* Claims about the chunks of a batch, under SpecChunks.                   *)

\* a call that split its batch into chunks
BatchSplit ==
    \/ last.op = "make_chunks"
    \/ last.op = "index_documents" /\ last.status.kind \in {"success", "index_error"}

\* how many chunks a document's text gives: none when blank, one up to 1000
\* characters, then one more for every 800 characters or part of them
PieceCount(text) ==
    IF Strip(text) = <<>> THEN 0
    ELSE IF Len(text) <= 1000 THEN 1
    ELSE 1 + ((Len(text) - 1000 + 799) \div 800)

\* the documents the files of the batch give, each with its file
LoadedFrom(files) ==
    LET fs == SelectIn(files, LongUploads \ {None})
    IN  Flatten([n \in 1..Len(fs) |->
            IF load_document(fs[n]).raised THEN <<>>
            ELSE [d \in 1..Len(load_document(fs[n]).value) |->
                     [file |-> fs[n], doc |-> load_document(fs[n]).value[d]]]])

\* for every chunk of the batch in output order, the document it is cut from
OwnerOf(files) ==
    LET from == LoadedFrom(files)
    IN  Flatten([n \in 1..Len(from) |->
            [i \in 1..PieceCount(from[n].doc.page_content) |-> from[n]]])

\* the piece is cut from the text
IsPieceOf(piece, text) ==
    \E start \in 1..Len(text) :
        start + Len(piece) - 1 <= Len(text)
        /\ SubSeq(text, start, start + Len(piece) - 1) = piece

\* C14: in every batch of index_documents each chunk carries the metadata of
\* the document it is cut from, with the file's name as source and the
\* file's path as file_path, and the chunk_index values of the batch are
\* pairwise distinct and are the chunks' positions in the splitter's output
\* order, from 0.
C14_ChunkMetadata ==
    BatchSplit =>
        LET chunks == last.chunks
            owner == OwnerOf(last.files)
        IN  /\ Len(chunks) = Len(owner)
            /\ \A i \in 1..Len(chunks) :
                   /\ chunks[i].metadata.chunk_index = i - 1
                   /\ chunks[i].metadata.source = owner[i].file.name
                   /\ chunks[i].metadata.file_path = file_path(owner[i].file)
                   /\ DOMAIN chunks[i].metadata
                          = DOMAIN owner[i].doc.metadata
                              \cup {"source", "file_path", "chunk_index"}
                   /\ \A key \in DOMAIN owner[i].doc.metadata \ {"source", "file_path"} :
                          chunks[i].metadata[key] = owner[i].doc.metadata[key]
                   /\ IsPieceOf(chunks[i].page_content, owner[i].doc.page_content)
            /\ \A i, j \in 1..Len(chunks) :
                   i # j => chunks[i].metadata.chunk_index # chunks[j].metadata.chunk_index

\* C14's case: a batch of two files, the first one with a page that is split
\* into several chunks, so that the second file's chunk is not numbered 1
C14_Witness ==
    /\ BatchSplit
    /\ Len(last.files) = 2
    /\ last.files[1] # None /\ last.files[2] # None
    /\ last.files[1].name # last.files[2].name
    /\ Len(last.chunks) >= 4
    /\ last.chunks[1].metadata.source = last.chunks[2].metadata.source
    /\ "page" \in DOMAIN last.chunks[1].metadata
    /\ last.chunks[Len(last.chunks)].metadata.source = last.files[2].name

-----------------------------------------------------------------------------
(* Claims about the context sent and the sources section, under SpecLong.  *)

\* C12: the context passed to the model is the first min(6000, length)
\* characters of the concatenation of all the labelled chunks: it is never
\* longer than 6000 characters, it is cut at a character and not at a chunk,
\* and the concatenation it is cut from holds every retrieved chunk in place.
C12_PlainCharacterCut ==
    (pair.called /\ pair.r1.sent # None) =>
        LET full == GroupedContext(DocsOf(pair.r1))
            sent == pair.r1.sent.context
        IN  /\ Len(sent) <= 6000
            /\ Len(sent) = Min(6000, Len(full))
            /\ sent = SubSeq(full, 1, Len(sent))

\* C12's case: the chunks of two documents make a context of more than 6000
\* characters, and the cut falls inside a chunk
C12_Witness ==
    /\ pair.called
    /\ pair.r1.sent # None
    /\ Len(pair.r1.context) > 6000
    /\ Cardinality(DistinctSources(DocsOf(pair.r1))) = 2
    /\ pair.r1.context[6000] \in {"b", "c"}
    /\ pair.r1.context[6001] \in {"b", "c"}

\* a run that answered: the model returned and the turn holds its answer
Answered(r) == r.sent # None /\ ~r.completion.raised

\* the sources section of an answered run: the answer of the new turn after
\* the model's text
SectionOf(r) ==
    LET answer == r.history[Len(r.history)][2]
    IN  SubSeq(answer, Len(r.completion.value) + 1, Len(answer))

\* the lines of a text: what stands between its newlines
LinesOf(text) ==
    LET ends == {i \in 1..Len(text) : text[i] = "\n"} \cup {Len(text) + 1}
        nth == [n \in 1..Cardinality(ends) |->
                   CHOOSE e \in ends : Cardinality({x \in ends : x < e}) = n - 1]
    IN  [n \in 1..Cardinality(ends) |->
            SubSeq(text, IF n = 1 THEN 1 ELSE nth[n - 1] + 1, nth[n] - 1)]

\* the places of a sequence of lines that hold the given line
PlacesOf(lines, line) == {n \in 1..Len(lines) : lines[n] = line}

SummaryLine(n_docs, n_chunks) ==
    <<"<books>", " ", "*", "*", "S", "o", "u", "r", "c", "e", "s", " ", "U", "s", "e", "d",
      "*", "*", " ", "(">> \o Str(n_docs)
    \o <<" ", "d", "o", "c", "u", "m", "e", "n", "t", "(", "s", ")", ",", " ">>
    \o Str(n_chunks) \o <<" ", "c", "h", "u", "n", "k", "(", "s", ")", ")">>

DocumentLine(source, c) ==
    <<"<page>", " ", "*", "*">> \o source \o <<"*", "*", " ", "(">> \o Str(c)
    \o <<" ", "c", "h", "u", "n", "k", "(", "s", ")", ")">>

PreviewMark == <<" ", " ", " ", "<bullet>", " ", "C", "h", "u", "n", "k", " ">>

MoreMark == <<" ", " ", " ", "<bullet>", " ", ".", ".", ".", " ", "a", "n", "d", " ">>

MoreLine(n) ==
    MoreMark \o Str(n) \o <<" ", "m", "o", "r", "e", " ", "c", "h", "u", "n", "k", "(", "s", ")">>

Ellipsis == <<".", ".", ".">>

\* the line is the preview numbered i of the chunk: at most 150 characters of
\* its start, newlines as spaces, and an ellipsis exactly when it is longer
IsPreviewOf(line, i, doc) ==
    LET open == PreviewMark \o Str(i) \o <<":", " ", "_">>
        shown == SubSeq(line, Len(open) + 1, Len(line) - 1)
        long == Len(doc.page_content) > 150
        text == IF long THEN SubSeq(shown, 1, Len(shown) - Len(Ellipsis)) ELSE shown
    IN  /\ StartsWith(line, open)
        /\ line[Len(line)] = "_"
        /\ long => IsSuffixOf(Ellipsis, shown)
        /\ Len(text) <= 150
        /\ text = Strip(ReplaceNewlines(SubSeq(doc.page_content, 1,
                                               Min(150, Len(doc.page_content)))))

\* C13 (under SpecLong): the sources section of a successful answer reports
\* the number of distinct source documents and the number of retrieved
\* chunks; for every source document with c chunks it has one line with c,
\* followed by exactly min(c, 3) previews, of the first chunks in retrieval
\* order, each at most 150 characters plus an ellipsis when the chunk is
\* longer, and then an "and c-3 more" line if and only if c > 3; the
\* per-document counts sum to the reported total.
C13_SourcesSection ==
    (pair.called /\ Answered(pair.r1)) =>
        LET docs == DocsOf(pair.r1)
            lines == LinesOf(SectionOf(pair.r1))
            srcs == SourcesInOrder(docs)
            count == [s \in 1..Len(srcs) |-> Len(ChunksFrom(docs, srcs[s]))]
            shown == [s \in 1..Len(srcs) |-> Min(count[s], 3)]
        IN  /\ Cardinality(PlacesOf(lines, SummaryLine(Len(srcs), Len(docs)))) = 1
            /\ SumSeq(count) = Len(docs)
            /\ \A s \in 1..Len(srcs) :
                   LET mine == ChunksFrom(docs, srcs[s])
                       at == PlacesOf(lines, DocumentLine(srcs[s], count[s]))
                       p == CHOOSE n \in at : TRUE
                   IN  /\ Cardinality(at) = 1
                       /\ \A i \in 1..shown[s] : IsPreviewOf(lines[p + i], i, mine[i])
                       /\ IF count[s] > 3
                          THEN lines[p + shown[s] + 1] = MoreLine(count[s] - 3)
                          ELSE lines[p + shown[s] + 1] = <<>>
            /\ Cardinality({n \in 1..Len(lines) : StartsWith(lines[n], PreviewMark)})
                   = SumSeq(shown)
            /\ Cardinality({n \in 1..Len(lines) : StartsWith(lines[n], MoreMark)})
                   = Cardinality({s \in 1..Len(srcs) : count[s] > 3})

\* C13's case: an answer from four chunks of one document, a long one among
\* its first three, and fewer chunks of another document
C13_Witness ==
    /\ pair.called
    /\ Answered(pair.r1)
    /\ LET docs == DocsOf(pair.r1)
       IN  /\ Cardinality(DistinctSources(docs)) = 2
           /\ \E s \in DistinctSources(docs) :
                  /\ Len(ChunksFrom(docs, s)) > 3
                  /\ \E i \in 1..3 : Len(ChunksFrom(docs, s)[i].page_content) > 150
                  /\ \E i \in 1..3 : Len(ChunksFrom(docs, s)[i].page_content) <= 150

-----------------------------------------------------------------------------
(* Claims about the MCP server, under SpecMcp.                             *)

\* the path a tool call asked for, resolved against the project root
Requested == Resolve(PathJoin(get_project_root, mcp.arg))

OutsideCall ==
    /\ mcp.tool \in {"read_file", "list_files"}
    /\ mcp.arg # None
    /\ ~Within(Requested, get_project_root)

\* C1: every read_file or list_files call whose path, resolved against the
\* project root, lies outside the project root is answered "Access denied"
\* (and so never with file contents or a directory listing); this includes
\* a sibling directory whose name starts with the root's name.
C1_OutsideIsDenied == OutsideCall => mcp.resp.kind = "denied"

====
